---- MODULE Spec2Model ----
(***************************************************************************)
(* Model of src/index.js: the terminal typing animation of the landing     *)
(* page.  The document is a set of named regions, each with its text,      *)
(* inline display and visibility and the two marker classes; the browser   *)
(* is a clock and a set of pending timers, fired in order of their due     *)
(* time (ties in order of creation); the session is the referrer of the    *)
(* load and the sessionStorage key 'hasVisitedMain'.                       *)
(*                                                                         *)
(* Two specifications share the handlers.  Spec is the page as deployed:   *)
(* a load runs initializePage, the timers it started fire, and the page    *)
(* may be left and loaded again in the same session.  SpecApi calls the    *)
(* functions directly, one call at a time, with arguments drawn from       *)
(* small sets.                                                             *)
(***************************************************************************)
EXTENDS Integers, Sequences, FiniteSets, TLC

VARIABLES
    regions,        \* the document: region id -> attributes, for the regions that exist
    pageSource,     \* the regions as the page's markup declares them (restored by a load)
    timers,         \* pending intervals and timeouts
    now,            \* milliseconds since the load
    nextId,         \* next timer handle
    referrer,       \* document.referrer
    hasVisitedMain, \* sessionStorage.getItem('hasVisitedMain')
    errors,         \* number of console.error reports
    thrown,         \* number of uncaught TypeErrors
    notified,       \* the onComplete invocations: for each, the callbacks then pending
    mode,           \* what this load has done: "loading", "animated", "immediate"
    loads,          \* page loads so far in this session
    calls,          \* direct calls so far
    lastOp,         \* the operation that produced this state
    producers       \* per region, the producers that have targeted it, oldest first

vars == <<regions, pageSource, timers, now, nextId, referrer, hasVisitedMain,
          errors, thrown, notified, mode, loads, calls, lastOp, producers>>

----------------------------------------------------------------------------
(* Bounds *)

MaxLoads == 2
MaxCalls == 2
MaxLen == 2

----------------------------------------------------------------------------
(* Names and texts *)

NULL == "null"

RegionIds == {"cat-command", "welcome-section", "new-command-line", "typed-space",
              "pages-list", "final-command-line", "final-cursor"}

MissingId == "does-not-exist"

\* U+00A0 as one character of a text
NBSP == "U+00A0"

Cmd1Text == <<"$", " ", "c", "a", "t", " ", "i", "n", "t", "r", "o", "d", "u", "c",
              "t", "i", "o", "n", ".", "h", "t", "m", "l">>

LsText == <<"l", "s", " ", "p", "a", "g", "e", "s">>

NbspMarkup == <<"&", "n", "b", "s", "p", ";">>

TypedSpaceMarkup == NbspMarkup \o LsText

\* window.location.origin, and the URLs a load can be referred from: none, the
\* site's own pages, another origin whose URL begins with the site's origin
\* string, and an unrelated origin.  A URL is scheme, host labels, then the path.
currentDomain == <<"https://", "site">>

Referrers == { <<>>,
               <<"https://", "site", "/">>,
               <<"https://", "site", "/", "pages">>,
               <<"https://", "site", ".evil", "/">>,
               <<"https://", "other", "/">> }

----------------------------------------------------------------------------
(* Strings and markup *)

StartsWith(s, p) == Len(p) <= Len(s) /\ SubSeq(s, 1, Len(p)) = p

\* The origin of a URL: what precedes its path.  The script compares strings
\* (StartsWith); the claims about origins use this.
RECURSIVE OriginOf(_)
OriginOf(url) ==
    IF url = <<>> \/ Head(url) = "/" THEN <<>>
    ELSE <<Head(url)>> \o OriginOf(Tail(url))

Entities == { [name |-> NbspMarkup, char |-> NBSP],
              [name |-> <<"&", "a", "m", "p", ";">>, char |-> "&"] }

\* The text a tag-free markup string parses to: character references decoded.
RECURSIVE ParseHTML(_)
ParseHTML(m) ==
    IF m = <<>> THEN <<>>
    ELSE IF \E e \in Entities : StartsWith(m, e.name)
         THEN LET e == CHOOSE x \in Entities : StartsWith(m, x.name)
              IN  <<e.char>> \o ParseHTML(SubSeq(m, Len(e.name) + 1, Len(m)))
         ELSE <<Head(m)>> \o ParseHTML(Tail(m))

\* The markup a text serialises to: what reading innerHTML of a text-only region
\* gives.  The script never reads it; the claims about markup content do.
RECURSIVE SerializeHTML(_)
SerializeHTML(t) ==
    IF t = <<>> THEN <<>>
    ELSE (IF \E e \in Entities : e.char = Head(t)
          THEN (CHOOSE e \in Entities : e.char = Head(t)).name
          ELSE <<Head(t)>>) \o SerializeHTML(Tail(t))

InnerHTML(e) == SerializeHTML(e.content)

----------------------------------------------------------------------------
(* The document and the browser *)

\* The attributes a region can be declared with: nothing typed yet, not yet
\* marked visible, hidden by an inline style or by the stylesheet alone, with or
\* without the typing marker.
InitialAttrs ==
    { [content |-> <<>>, display |-> d, visibility |-> "", visible |-> FALSE,
       typingEffect |-> c] : d \in {"", "none"}, c \in BOOLEAN }

NoConfig == [speed |-> 0, removeCursor |-> FALSE, showElementId |-> NULL,
             showDelay |-> 0, onComplete |-> NULL]

NoOp == [op |-> "load", target |-> NULL, ret |-> NULL]

Op(name, target, ret) == [op |-> name, target |-> target, ret |-> ret]

\* The state the handlers read and write, threaded through a handler's statements.
\* raised: an exception is propagating out of the running callback.
World == [regions |-> regions, timers |-> timers, now |-> now, nextId |-> nextId,
          errors |-> errors, thrown |-> thrown, notified |-> notified,
          producers |-> producers, raised |-> FALSE]

Commit(w, op) ==
    /\ regions' = w.regions
    /\ timers' = w.timers
    /\ now' = w.now
    /\ nextId' = w.nextId
    /\ errors' = w.errors
    /\ thrown' = w.thrown
    /\ notified' = w.notified
    /\ producers' = w.producers
    /\ lastOp' = op

ConsoleError(w) == [w EXCEPT !.errors = @ + 1]

\* element.<member> = <value>, for each member of `assigned`, on the result of
\* getElementById(id): a TypeError when the region is missing, which ends the
\* running callback.
Deref(w, id, assigned) ==
    IF w.raised THEN w
    ELSE IF id \notin DOMAIN w.regions
         THEN [w EXCEPT !.raised = TRUE, !.thrown = @ + 1]
         ELSE [w EXCEPT !.regions[id] =
                            [f \in DOMAIN @ |->
                                IF f \in DOMAIN assigned THEN assigned[f] ELSE @[f]]]

\* A call of a producer on an existing region, with its arguments, is noted.
Produced(w, id, fn, text, config) ==
    IF w.raised THEN w
    ELSE [w EXCEPT !.producers[id] =
                       Append(@, [fn |-> fn, text |-> text, config |-> config])]

\* setInterval (period > 0) and setTimeout (period = 0)
SetTimer(w, callback, delay, period, target, text, index, config) ==
    [w EXCEPT !.timers = @ \cup { [id |-> w.nextId, due |-> w.now + delay,
                                   callback |-> callback, period |-> period,
                                   target |-> target, text |-> text,
                                   index |-> index, config |-> config] },
              !.nextId = @ + 1]

ClearInterval(w, id) == [w EXCEPT !.timers = { t \in @ : t.id # id }]

\* The pending timer the event loop runs next.
Due == CHOOSE t \in timers :
          \A u \in timers : t.due < u.due \/ (t.due = u.due /\ t.id <= u.id)

----------------------------------------------------------------------------
(* isFirstVisit *)

\* isFirstVisit without the sessionStorage.setItem call.
IsFirstVisit_NoMark(ref, flag) ==
    IF ref # <<>> /\ StartsWith(ref, currentDomain)
    THEN [ret |-> FALSE, flag |-> flag]
    ELSE IF flag # NULL
         THEN [ret |-> FALSE, flag |-> flag]
         ELSE [ret |-> TRUE, flag |-> flag]

\* isFirstVisit without the referrer test.
IsFirstVisit_NoReferrer(ref, flag) ==
    IF flag # NULL
    THEN [ret |-> FALSE, flag |-> flag]
    ELSE [ret |-> TRUE, flag |-> "true"]

\* isFirstVisit without the test of the stored flag.
IsFirstVisit_NoFlagCheck(ref, flag) ==
    IF ref # <<>> /\ StartsWith(ref, currentDomain)
    THEN [ret |-> FALSE, flag |-> flag]
    ELSE [ret |-> TRUE, flag |-> "true"]

\* isFirstVisit storing the flag before the referrer test.
IsFirstVisit_MarksFirst(ref, flag) ==
    IF ref # <<>> /\ StartsWith(ref, currentDomain)
    THEN [ret |-> FALSE, flag |-> "true"]
    ELSE IF flag # NULL
         THEN [ret |-> FALSE, flag |-> "true"]
         ELSE [ret |-> TRUE, flag |-> "true"]

IsFirstVisit(ref, flag) ==
    IF ref # <<>> /\ StartsWith(ref, currentDomain)
    THEN [ret |-> FALSE, flag |-> flag]
    ELSE IF flag # NULL
         THEN [ret |-> FALSE, flag |-> flag]
         ELSE [ret |-> TRUE, flag |-> "true"]

----------------------------------------------------------------------------
(* typeText and typeHTML *)

DefaultSpeed == 100
DefaultShowDelay == 0

Defaults == [speed |-> DefaultSpeed, removeCursor |-> FALSE, showElementId |-> NULL,
             showDelay |-> DefaultShowDelay, onComplete |-> NULL]

MergeOptions(options) ==
    [f \in DOMAIN Defaults |->
        IF f \in DOMAIN options THEN options[f] ELSE Defaults[f]]

NewCommandLinePause == 1000
LsCommandPause == 800
FinalCommandLinePause == 500

\* RemoveCursor with the test of config.removeCursor inverted.
RemoveCursor_Inverted(w, id, config) ==
    IF ~config.removeCursor
    THEN [w EXCEPT !.regions[id].typingEffect = FALSE]
    ELSE w

RemoveCursor(w, id, config) ==
    IF config.removeCursor
    THEN [w EXCEPT !.regions[id].typingEffect = FALSE]
    ELSE w

ScheduleShow(w, config) ==
    IF config.showElementId # NULL
    THEN SetTimer(w, "showElement", config.showDelay, 0, config.showElementId,
                  <<>>, 0, config)
    ELSE w

\* config.onComplete(): the three continuations of simulateTyping each start a
\* timeout; "probe" is a caller's function that does nothing else.
InvokeOnComplete(w, config) ==
    IF config.onComplete = NULL THEN w
    ELSE LET n == [w EXCEPT !.notified = Append(@, {u.callback : u \in w.timers})]
         IN  CASE config.onComplete = "onCmd1Complete" ->
                    SetTimer(n, "showNewCommandLine", NewCommandLinePause, 0, NULL,
                             <<>>, 0, NoConfig)
               [] config.onComplete = "onSpaceComplete" ->
                    SetTimer(n, "typeLsCommand", LsCommandPause, 0, NULL,
                             <<>>, 0, NoConfig)
               [] config.onComplete = "onLsComplete" ->
                    SetTimer(n, "showFinalCommandLine", FinalCommandLinePause, 0, NULL,
                             <<>>, 0, NoConfig)
               [] OTHER -> n

\* typeText without the return after the error report: the next statement
\* dereferences the missing element.
TypeText_NoReturn(w, elementId, text, options) ==
    IF elementId \notin DOMAIN w.regions
    THEN Deref(ConsoleError(w), elementId, [content |-> <<>>])
    ELSE LET config == MergeOptions(options)
             cleared == [w EXCEPT !.regions[elementId].content = <<>>]
         IN  SetTimer(Produced(cleared, elementId, "typeText", text, config),
                      "typingInterval", config.speed, config.speed,
                      elementId, text, 0, config)

TypeText(w, elementId, text, options) ==
    IF elementId \notin DOMAIN w.regions
    THEN ConsoleError(w)
    ELSE LET config == MergeOptions(options)
             cleared == [w EXCEPT !.regions[elementId].content = <<>>]
         IN  SetTimer(Produced(cleared, elementId, "typeText", text, config),
                      "typingInterval", config.speed, config.speed,
                      elementId, text, 0, config)

\* TypingIntervalCallback reading the text from its end: charAt(length - 1 - index).
TypingIntervalCallback_Reversed(w, t) ==
    IF t.index < Len(t.text)
    THEN [w EXCEPT !.regions[t.target].content =
                       @ \o <<t.text[Len(t.text) - t.index]>>,
                   !.timers = { IF u.id = t.id THEN [u EXCEPT !.index = @ + 1] ELSE u
                                : u \in @ }]
    ELSE InvokeOnComplete(
             ScheduleShow(
                 RemoveCursor(ClearInterval(w, t.id), t.target, t.config),
                 t.config),
             t.config)

\* One run of the interval's callback for the pending interval t.
\* The callback completing in the tick that appends the last character.
TypingIntervalCallback_CompletesOnLastChar(w, t) ==
    LET typed == IF t.index < Len(t.text)
                 THEN [w EXCEPT !.regions[t.target].content =
                                    @ \o <<t.text[t.index + 1]>>,
                                !.timers = { IF u.id = t.id
                                             THEN [u EXCEPT !.index = @ + 1] ELSE u
                                             : u \in @ }]
                 ELSE w
    IN  IF t.index + 1 < Len(t.text)
        THEN typed
        ELSE InvokeOnComplete(
                 ScheduleShow(
                     RemoveCursor(ClearInterval(typed, t.id), t.target, t.config),
                     t.config),
                 t.config)

\* The completion branch notifying before it schedules the reveal.
TypingIntervalCallback_NotifiesFirst(w, t) ==
    IF t.index < Len(t.text)
    THEN [w EXCEPT !.regions[t.target].content = @ \o <<t.text[t.index + 1]>>,
                   !.timers = { IF u.id = t.id THEN [u EXCEPT !.index = @ + 1] ELSE u
                                : u \in @ }]
    ELSE ScheduleShow(
             InvokeOnComplete(
                 RemoveCursor(ClearInterval(w, t.id), t.target, t.config),
                 t.config),
             t.config)

TypingIntervalCallback(w, t) ==
    IF t.index < Len(t.text)
    THEN [w EXCEPT !.regions[t.target].content = @ \o <<t.text[t.index + 1]>>,
                   !.timers = { IF u.id = t.id THEN [u EXCEPT !.index = @ + 1] ELSE u
                                : u \in @ }]
    ELSE InvokeOnComplete(
             ScheduleShow(
                 RemoveCursor(ClearInterval(w, t.id), t.target, t.config),
                 t.config),
             t.config)

TypeHTML(w, elementId, htmlContent, options) ==
    IF elementId \notin DOMAIN w.regions
    THEN ConsoleError(w)
    ELSE LET config == MergeOptions(options)
             cleared == [w EXCEPT !.regions[elementId].content = ParseHTML(<<>>)]
         IN  SetTimer(Produced(cleared, elementId, "typeHTML", htmlContent, config),
                      "typeHTMLTimeout", config.speed, 0,
                      elementId, htmlContent, 0, config)

\* TypeHTMLCallback assigning the markup to textContent instead of innerHTML.
TypeHTMLCallback_AsText(w, t) ==
    InvokeOnComplete(
        ScheduleShow(
            RemoveCursor([w EXCEPT !.regions[t.target].content = t.text],
                         t.target, t.config),
            t.config),
        t.config)

TypeHTMLCallback(w, t) ==
    InvokeOnComplete(
        ScheduleShow(
            RemoveCursor([w EXCEPT !.regions[t.target].content = ParseHTML(t.text)],
                         t.target, t.config),
            t.config),
        t.config)

\* The reveal without its check of the element.
ShowElementCallback_NoGuard(w, t) ==
    Deref(w, t.target, [display |-> "block", visibility |-> "visible", visible |-> TRUE])

ShowElementCallback(w, t) ==
    IF t.target \in DOMAIN w.regions
    THEN [w EXCEPT !.regions[t.target].display = "block",
                   !.regions[t.target].visibility = "visible",
                   !.regions[t.target].visible = TRUE]
    ELSE ConsoleError(w)

----------------------------------------------------------------------------
(* showAllContentImmediately *)

\* showAllContentImmediately with `innerHTML +=` on the final cursor.
ShowAllContentImmediately_Appends(w) ==
    LET catCommand  == Produced(
                         Deref(w, "cat-command",
                           [content |-> Cmd1Text, typingEffect |-> FALSE]),
                         "cat-command", "showAllContentImmediately", Cmd1Text, NoConfig)
        welcome     == Deref(catCommand, "welcome-section",
                           [visible |-> TRUE])
        newLine     == Deref(welcome, "new-command-line",
                           [display |-> "flex", visibility |-> "visible"])
        typedSpace  == Produced(
                         Deref(newLine, "typed-space",
                           [content |-> ParseHTML(TypedSpaceMarkup), typingEffect |-> FALSE]),
                         "typed-space", "showAllContentImmediately", TypedSpaceMarkup,
                         NoConfig)
        pagesList   == Deref(typedSpace, "pages-list",
                           [display |-> "block", visibility |-> "visible", visible |-> TRUE])
        finalLine   == Deref(pagesList, "final-command-line",
                           [display |-> "flex", visibility |-> "visible"])
        finalCursor == Produced(
                         Deref(finalLine, "final-cursor",
                           [content |-> (IF "final-cursor" \in DOMAIN finalLine.regions
                                         THEN finalLine.regions["final-cursor"].content
                                         ELSE <<>>) \o ParseHTML(NbspMarkup)]),
                         "final-cursor", "showAllContentImmediately", NbspMarkup,
                         NoConfig)
    IN  finalCursor

ShowAllContentImmediately(w) ==
    LET catCommand  == Produced(
                         Deref(w, "cat-command",
                           [content |-> Cmd1Text, typingEffect |-> FALSE]),
                         "cat-command", "showAllContentImmediately", Cmd1Text, NoConfig)
        welcome     == Deref(catCommand, "welcome-section",
                           [visible |-> TRUE])
        newLine     == Deref(welcome, "new-command-line",
                           [display |-> "flex", visibility |-> "visible"])
        typedSpace  == Produced(
                         Deref(newLine, "typed-space",
                           [content |-> ParseHTML(TypedSpaceMarkup), typingEffect |-> FALSE]),
                         "typed-space", "showAllContentImmediately", TypedSpaceMarkup,
                         NoConfig)
        pagesList   == Deref(typedSpace, "pages-list",
                           [display |-> "block", visibility |-> "visible", visible |-> TRUE])
        finalLine   == Deref(pagesList, "final-command-line",
                           [display |-> "flex", visibility |-> "visible"])
        finalCursor == Produced(
                         Deref(finalLine, "final-cursor",
                           [content |-> ParseHTML(NbspMarkup)]),
                         "final-cursor", "showAllContentImmediately", NbspMarkup,
                         NoConfig)
    IN  finalCursor

----------------------------------------------------------------------------
(* simulateTyping and its continuations *)

SimulateTyping(w, elementId) ==
    TypeText(w, elementId, Cmd1Text,
             [speed |-> 100, removeCursor |-> TRUE, showElementId |-> "welcome-section",
              showDelay |-> 0, onComplete |-> "onCmd1Complete"])

\* The continuation starting the ls command at once instead of from the
\* completion of the typed space.
ShowNewCommandLineCallback_Unchained(w) ==
    LET shown == Deref(w, "new-command-line",
                           [display |-> "flex", visibility |-> "visible"])
    IN  IF shown.raised THEN shown
        ELSE TypeText(TypeHTML(shown, "typed-space", NbspMarkup,
                               [speed |-> 100, removeCursor |-> FALSE,
                                onComplete |-> NULL]),
                      "typed-space", LsText,
                      [speed |-> 100, removeCursor |-> TRUE,
                       showElementId |-> "pages-list", showDelay |-> 300,
                       onComplete |-> "onLsComplete"])

ShowNewCommandLineCallback(w) ==
    LET shown == Deref(w, "new-command-line",
                           [display |-> "flex", visibility |-> "visible"])
    IN  IF shown.raised THEN shown
        ELSE TypeHTML(shown, "typed-space", NbspMarkup,
                      [speed |-> 100, removeCursor |-> FALSE,
                       onComplete |-> "onSpaceComplete"])

\* The ls command typed with a reveal delay longer than the pause that follows.
TypeLsCommandCallback_LateReveal(w) ==
    TypeText(w, "typed-space", LsText,
             [speed |-> 100, removeCursor |-> TRUE, showElementId |-> "pages-list",
              showDelay |-> 600, onComplete |-> "onLsComplete"])

TypeLsCommandCallback(w) ==
    TypeText(w, "typed-space", LsText,
             [speed |-> 100, removeCursor |-> TRUE, showElementId |-> "pages-list",
              showDelay |-> 300, onComplete |-> "onLsComplete"])

\* The last continuation without its typeHTML call.
ShowFinalCommandLineCallback_NoCursor(w) ==
    Deref(w, "final-command-line", [display |-> "flex", visibility |-> "visible"])

ShowFinalCommandLineCallback(w) ==
    LET shown == Deref(w, "final-command-line",
                           [display |-> "flex", visibility |-> "visible"])
    IN  IF shown.raised THEN shown
        ELSE TypeHTML(shown, "final-cursor", NbspMarkup,
                      [speed |-> 100, removeCursor |-> FALSE])

----------------------------------------------------------------------------
(* The event loop: the timer that is due runs its callback *)

\* The world in which the callback of the due timer t runs: the clock has reached
\* t.due; a timeout is spent, an interval is armed for its next period.
Fired(t) ==
    [World EXCEPT !.now = t.due,
                  !.timers = IF t.period = 0 THEN @ \ {t}
                             ELSE (@ \ {t}) \cup {[t EXCEPT !.due = @ + t.period]}]

Frame == UNCHANGED <<pageSource, referrer, hasVisitedMain, mode, loads, calls>>

TypingIntervalTick ==
    /\ timers # {}
    /\ Due.callback = "typingInterval"
    /\ LET t == Due
       IN  Commit(TypingIntervalCallback(Fired(t), t),
                  Op("typingInterval", t.target,
                     IF t.index < Len(t.text) THEN "char" ELSE "done"))
    /\ Frame

TypeHTMLTimeout ==
    /\ timers # {}
    /\ Due.callback = "typeHTMLTimeout"
    /\ LET t == Due
       IN  Commit(TypeHTMLCallback(Fired(t), t),
                  Op("typeHTMLTimeout", t.target, "done"))
    /\ Frame

ShowElementTimeout ==
    /\ timers # {}
    /\ Due.callback = "showElement"
    /\ LET t == Due
       IN  Commit(ShowElementCallback(Fired(t), t),
                  Op("showElement", t.target,
                     IF t.target \in DOMAIN regions THEN "shown" ELSE "not found"))
    /\ Frame

ShowNewCommandLine ==
    /\ timers # {}
    /\ Due.callback = "showNewCommandLine"
    /\ Commit(ShowNewCommandLineCallback(Fired(Due)),
              Op("showNewCommandLine", "new-command-line", "done"))
    /\ Frame

TypeLsCommand ==
    /\ timers # {}
    /\ Due.callback = "typeLsCommand"
    /\ Commit(TypeLsCommandCallback(Fired(Due)),
              Op("typeLsCommand", "typed-space", "done"))
    /\ Frame

ShowFinalCommandLine ==
    /\ timers # {}
    /\ Due.callback = "showFinalCommandLine"
    /\ Commit(ShowFinalCommandLineCallback(Fired(Due)),
              Op("showFinalCommandLine", "final-command-line", "done"))
    /\ Frame

----------------------------------------------------------------------------
(* The page: a load runs initializePage; the visitor may leave and come back *)

NoProducers == [r \in RegionIds |-> <<>>]

\* initializePage starting the animation on a return visit as well.
InitializePage_AlwaysAnimates ==
    /\ mode = "loading"
    /\ LET v == IsFirstVisit(referrer, hasVisitedMain)
       IN  /\ hasVisitedMain' = v.flag
           /\ mode' = IF v.ret THEN "animated" ELSE "immediate"
           /\ Commit(SimulateTyping(World, "cat-command"),
                     Op("initializePage", "cat-command", IF v.ret THEN "true" ELSE "false"))
    /\ UNCHANGED <<pageSource, referrer, loads, calls>>

InitializePage ==
    /\ mode = "loading"
    /\ LET v == IsFirstVisit(referrer, hasVisitedMain)
       IN  /\ hasVisitedMain' = v.flag
           /\ IF v.ret
              THEN /\ mode' = "animated"
                   /\ Commit(SimulateTyping(World, "cat-command"),
                             Op("initializePage", "cat-command", "true"))
              ELSE /\ mode' = "immediate"
                   /\ Commit(ShowAllContentImmediately(World),
                             Op("initializePage", NULL, "false"))
    /\ UNCHANGED <<pageSource, referrer, loads, calls>>

\* The page is torn down (its pending timers with it) and loaded again in the
\* same session, from any referrer.
Reload ==
    /\ mode # "loading"
    /\ loads < MaxLoads
    /\ loads' = loads + 1
    /\ \E ref \in Referrers : referrer' = ref
    /\ mode' = "loading"
    /\ regions' = pageSource
    /\ timers' = {}
    /\ now' = 0
    /\ nextId' = 0
    /\ errors' = 0
    /\ thrown' = 0
    /\ notified' = <<>>
    /\ producers' = NoProducers
    /\ lastOp' = NoOp
    /\ UNCHANGED <<pageSource, hasVisitedMain, calls>>

Loaded(doc) ==
    /\ pageSource = doc
    /\ regions = doc
    /\ timers = {}
    /\ now = 0
    /\ nextId = 0
    /\ errors = 0
    /\ thrown = 0
    /\ notified = <<>>
    /\ mode = "loading"
    /\ loads = 1
    /\ calls = 0
    /\ lastOp = NoOp
    /\ producers = NoProducers

Init ==
    /\ \E present \in SUBSET RegionIds, a \in InitialAttrs :
          Loaded([r \in present |-> a])
    /\ referrer \in Referrers
    /\ hasVisitedMain \in {NULL, "true"}

Next ==
    \/ InitializePage
    \/ TypingIntervalTick
    \/ TypeHTMLTimeout
    \/ ShowElementTimeout
    \/ ShowNewCommandLine
    \/ TypeLsCommand
    \/ ShowFinalCommandLine
    \/ Reload

Spec == Init /\ [][Next]_vars

\* The callback of the timer that is due runs.
TimerFires ==
    \/ TypingIntervalTick
    \/ TypeHTMLTimeout
    \/ ShowElementTimeout
    \/ ShowNewCommandLine
    \/ TypeLsCommand
    \/ ShowFinalCommandLine

\* The event loop runs the callback of a due timer: a pending timer is not
\* postponed for ever.  Leaving the page is up to the visitor.
Fairness == WF_vars(TimerFires)

\* The documents of the fair runs: the complete page, and the page with one
\* region missing.
FairDocuments ==
    LET Present == {RegionIds} \cup {RegionIds \ {m} : m \in RegionIds}
    IN  UNION {{[r \in present |-> a] : a \in InitialAttrs} : present \in Present}

InitFair ==
    /\ \E doc \in FairDocuments : Loaded(doc)
    /\ referrer \in Referrers
    /\ hasVisitedMain \in {NULL, "true"}

SpecFair == InitFair /\ [][Next]_vars /\ Fairness

----------------------------------------------------------------------------
(* The functions called directly, one call at a time *)

\* The texts typed: the prefixes of the ls command up to MaxLen characters.
Texts == { SubSeq(LsText, 1, n) : n \in 0..MaxLen }

Markups == { NbspMarkup, NbspMarkup \o <<"l", "s">> }

\* The options objects passed: none; every option set, revealing a region that
\* exists; a reveal of a region that does not exist, after a delay.
OptionSets ==
    { <<>>,
      [speed |-> 50, removeCursor |-> TRUE, showElementId |-> "welcome-section",
       showDelay |-> 0, onComplete |-> "probe"],
      [showElementId |-> MissingId, showDelay |-> 300, onComplete |-> "probe"] }

Targets == {"typed-space", MissingId}

Found(id) == IF id \in DOMAIN regions THEN "started" ELSE "not found"

ApiFrame == UNCHANGED <<pageSource, referrer, mode, loads>>

CallTypeText ==
    /\ timers = {}
    /\ calls < MaxCalls
    /\ calls' = calls + 1
    /\ \E elementId \in Targets, text \in Texts, options \in OptionSets :
          Commit(TypeText(World, elementId, text, options),
                 Op("typeText", elementId, Found(elementId)))
    /\ UNCHANGED hasVisitedMain
    /\ ApiFrame

CallTypeHTML ==
    /\ timers = {}
    /\ calls < MaxCalls
    /\ calls' = calls + 1
    /\ \E elementId \in Targets, htmlContent \in Markups, options \in OptionSets :
          Commit(TypeHTML(World, elementId, htmlContent, options),
                 Op("typeHTML", elementId, Found(elementId)))
    /\ UNCHANGED hasVisitedMain
    /\ ApiFrame

CallShowAllContentImmediately ==
    /\ timers = {}
    /\ calls < MaxCalls
    /\ calls' = calls + 1
    /\ Commit(ShowAllContentImmediately(World),
              Op("showAllContentImmediately", NULL, "done"))
    /\ UNCHANGED hasVisitedMain
    /\ ApiFrame

CallIsFirstVisit ==
    /\ calls < MaxCalls
    /\ calls' = calls + 1
    /\ LET v == IsFirstVisit(referrer, hasVisitedMain)
       IN  /\ hasVisitedMain' = v.flag
           /\ Commit(World, Op("isFirstVisit", NULL, IF v.ret THEN "true" ELSE "false"))
    /\ ApiFrame

\* The documents the calls are made on: every region present, declared with any
\* of the initial attributes, and a document without the pages list.
ApiDocuments ==
    { [r \in RegionIds |-> a] : a \in InitialAttrs }
    \cup { [r \in RegionIds \ {"pages-list"} |->
               [content |-> <<>>, display |-> "none", visibility |-> "",
                visible |-> FALSE, typingEffect |-> TRUE]] }

InitApi ==
    /\ \E doc \in ApiDocuments : Loaded(doc)
    /\ referrer \in Referrers
    /\ hasVisitedMain \in {NULL, "true"}

NextApi ==
    \/ CallTypeText
    \/ CallTypeHTML
    \/ CallShowAllContentImmediately
    \/ CallIsFirstVisit
    \/ TypingIntervalTick
    \/ TypeHTMLTimeout
    \/ ShowElementTimeout

SpecApi == InitApi /\ [][NextApi]_vars

----------------------------------------------------------------------------
(* Claims *)

AllPresent == DOMAIN regions = RegionIds

ChainComplete == mode = "animated" /\ AllPresent /\ timers = {}

\* C1: with all seven regions present, the regions after one call of
\* showAllContentImmediately() on the page as loaded are the regions the
\* first-visit chain leaves once every timer it scheduled has fired.
C1_ImmediateEqualsAnimated ==
    ChainComplete =>
        regions = ShowAllContentImmediately([World EXCEPT !.regions = pageSource]).regions

\* The first typeText call of the chain, on a page where its target and the
\* region it reveals exist.
Cmd1Typed ==
    /\ mode = "animated"
    /\ {"cat-command", "welcome-section"} \subseteq DOMAIN regions

Cmd1Speed == producers["cat-command"][1].config.speed

\* C2 as stated: once n ticks of config.speed have elapsed (n the length of the
\* text), the target holds the full text, its typing marker is removed and the
\* reveal region is marked visible.
C2_DoneAfterNTicks ==
    (Cmd1Typed /\ now >= Len(Cmd1Text) * Cmd1Speed) =>
        /\ regions["cat-command"].content = Cmd1Text
        /\ ~regions["cat-command"].typingEffect
        /\ regions["welcome-section"].visible

\* C2 as amended: after n ticks the target holds the full text; the typing marker
\* is removed by the (n+1)-th tick; the reveal region is marked visible once the
\* zero-delay timeout that tick schedules has fired as well.
C2_DoneAfterCompletionTick ==
    Cmd1Typed =>
        /\ now >= Len(Cmd1Text) * Cmd1Speed =>
              regions["cat-command"].content = Cmd1Text
        /\ now >= (Len(Cmd1Text) + 1) * Cmd1Speed =>
              ~regions["cat-command"].typingEffect
        /\ (/\ now >= (Len(Cmd1Text) + 1) * Cmd1Speed
            /\ ~\E t \in timers : t.callback = "showElement"
                                  /\ t.target = "welcome-section") =>
              /\ regions["welcome-section"].visible
              /\ regions["welcome-section"].display = "block"
              /\ regions["welcome-section"].visibility = "visible"

C2_Witness ==
    /\ Cmd1Typed
    /\ pageSource["cat-command"].typingEffect
    /\ now = (Len(Cmd1Text) + 1) * Cmd1Speed
    /\ lastOp.op = "showElement"
    /\ regions["cat-command"].content = Cmd1Text
    /\ ~regions["cat-command"].typingEffect
    /\ regions["welcome-section"].visible

IsPrefix(p, q) == Len(p) <= Len(q) /\ SubSeq(q, 1, Len(p)) = p

\* C3: while a typeText call types s into a region, the region's text is always
\* the prefix of s of the length of the ticks so far; every tick before the end
\* of s lengthens it by exactly one character; the tick that ends the call leaves
\* it equal to s.
C3_TypesPrefixesInOrder ==
    /\ [](\A t \in timers :
            t.callback = "typingInterval" =>
                /\ regions[t.target].content = SubSeq(t.text, 1, t.index)
                /\ IsPrefix(regions[t.target].content, t.text))
    /\ [][lastOp'.op = "typingInterval" =>
            LET t == Due
            IN  IF lastOp'.ret = "char"
                THEN /\ Len(regions'[t.target].content)
                          = Len(regions[t.target].content) + 1
                     /\ IsPrefix(regions[t.target].content, regions'[t.target].content)
                     /\ IsPrefix(regions'[t.target].content, t.text)
                ELSE /\ regions'[t.target].content = t.text
                     /\ Len(regions[t.target].content) = Len(t.text)]_vars

C3_Witness ==
    /\ lastOp = Op("typingInterval", "typed-space", "done")
    /\ regions["typed-space"].content = <<"l", "s">>
    /\ producers["typed-space"][Len(producers["typed-space"])].config.speed = 50

LastProducer(r) == producers[r][Len(producers[r])]

\* C4 as stated: once typeHTML has been called on a region, the region's markup
\* is empty or the full htmlContent of that call in every later state of the run.
C4_EmptyOrFullForTheRestOfTheRun ==
    \A r \in DOMAIN regions :
        \A i \in 1..Len(producers[r]) :
            producers[r][i].fn = "typeHTML" =>
                InnerHTML(regions[r]) \in {<<>>, producers[r][i].text}

\* C4 as amended: from a typeHTML call on a region until the next call that
\* writes that region (typeText, typeHTML or showAllContentImmediately), the
\* region's markup is empty or the full htmlContent of the call.
C4_EmptyOrFullUntilNextWrite ==
    \A r \in DOMAIN regions :
        (producers[r] # <<>> /\ LastProducer(r).fn = "typeHTML") =>
            InnerHTML(regions[r]) \in {<<>>, LastProducer(r).text}

C4_Witness ==
    /\ lastOp = Op("typeHTMLTimeout", "typed-space", "done")
    /\ LastProducer("typed-space").fn = "typeHTML"
    /\ LastProducer("typed-space").text = NbspMarkup \o <<"l", "s">>
    /\ regions["typed-space"].content = <<NBSP, "l", "s">>

\* A step that is the second of two successive direct calls of isFirstVisit,
\* the first being the first call of the session.
SecondVisitCheck ==
    /\ lastOp.op = "isFirstVisit"
    /\ lastOp'.op = "isFirstVisit"
    /\ calls = 1
    /\ calls' = 2

\* C5 as stated: whatever the referrer and the session flag, two successive calls
\* of isFirstVisit() return true, then false.
C5_TrueThenFalse ==
    [][SecondVisitCheck => lastOp.ret = "true" /\ lastOp'.ret = "false"]_vars

\* C5 as amended: a call of isFirstVisit() returns true exactly when the session
\* flag is unset and the referrer does not start with the current origin, and a
\* call that follows another call returns false: two successive calls return
\* true then false in such a session, and false then false in every other.
C5_TrueThenFalseWhenFresh ==
    /\ [][(lastOp'.op = "isFirstVisit" /\ calls' = calls + 1) =>
            (lastOp'.ret = "true" <=>
                (hasVisitedMain = NULL /\ ~StartsWith(referrer, currentDomain)))]_vars
    /\ [][(lastOp.op = "isFirstVisit" /\ lastOp'.op = "isFirstVisit"
           /\ calls' = calls + 1) => lastOp'.ret = "false"]_vars

\* Two calls have been made, neither wrote a region or reported an error: both
\* were isFirstVisit(); the session is one in which the first returned true.
C5_Witness ==
    /\ calls = 2
    /\ lastOp = Op("isFirstVisit", NULL, "false")
    /\ regions = pageSource
    /\ errors = 0
    /\ ~StartsWith(referrer, currentDomain)
    /\ hasVisitedMain = "true"

\* C6: when the origin of the referrer is the current origin, isFirstVisit()
\* returns false, with the session flag set or unset.
C6_SameOriginIsReturnVisit ==
    (lastOp.op = "isFirstVisit" /\ OriginOf(referrer) = currentDomain) =>
        lastOp.ret = "false"

C6_Witness ==
    /\ lastOp = Op("isFirstVisit", NULL, "false")
    /\ OriginOf(referrer) = currentDomain
    /\ hasVisitedMain = NULL

\* C7: a typeText or typeHTML call whose targetId resolves to no region reports
\* one error, raises nothing, changes no region, starts no timer and invokes no
\* completion notification.
C7_MissingTargetOnlyReports ==
    [][(/\ lastOp'.op \in {"typeText", "typeHTML"}
        /\ calls' = calls + 1
        /\ lastOp'.target \notin DOMAIN regions) =>
            /\ errors' = errors + 1
            /\ thrown' = thrown
            /\ regions' = regions
            /\ timers' = timers
            /\ nextId' = nextId
            /\ notified' = notified]_vars

C7_Witness ==
    /\ lastOp = Op("typeText", MissingId, "not found")
    /\ errors = 1
    /\ timers = {}
    /\ regions = pageSource

\* C8: a load in which isFirstVisit() returns false (the session flag is set, or
\* the referrer starts with the current origin) runs showAllContentImmediately()
\* and starts no timer, then or later in that load.
C8_ReturnVisitStartsNoTimer ==
    /\ [](mode = "immediate" => timers = {} /\ nextId = 0)
    /\ [][(/\ mode = "loading"
           /\ mode' # "loading"
           /\ (hasVisitedMain # NULL \/ StartsWith(referrer, currentDomain))) =>
              /\ mode' = "immediate"
              /\ timers' = {}
              /\ nextId' = nextId
              /\ "cat-command" \in DOMAIN regions =>
                    /\ regions'["cat-command"].content = Cmd1Text
                    /\ ~regions'["cat-command"].typingEffect
              /\ AllPresent =>
                    /\ regions'["pages-list"].visible
                    /\ regions'["final-cursor"].content = <<NBSP>>]_vars

\* The second load of a session whose first load set the flag: a return visit
\* from another site.
C8_Witness ==
    /\ loads = 2
    /\ mode = "immediate"
    /\ ~StartsWith(referrer, currentDomain)
    /\ AllPresent
    /\ regions["final-cursor"].content = <<NBSP>>
    /\ timers = {}

\* C9: whichever of the seven regions are missing, no exception is raised by
\* initializePage() or by a callback of the chain it starts.
C9_NoException == thrown = 0

\* C10: a call of showAllContentImmediately() starts no timer, and a second call
\* right after a first leaves every region as the first left it.
C10_ShowAllIdempotent ==
    [][(lastOp'.op = "showAllContentImmediately" /\ calls' = calls + 1) =>
          /\ timers' = timers
          /\ nextId' = nextId
          /\ lastOp.op = "showAllContentImmediately" => regions' = regions]_vars

C10_Witness ==
    /\ calls = 2
    /\ lastOp.op = "showAllContentImmediately"
    /\ AllPresent
    /\ Len(producers["final-cursor"]) = 2
    /\ regions["final-cursor"].content = <<NBSP>>
    /\ regions["typed-space"].content = <<NBSP>> \o LsText

\* C11: over the loads of a session the flag, once set, is never cleared, and a
\* load starts the animated chain only if the flag was unset when the load's
\* isFirstVisit() ran.
C11_FlagStaysSetAndGatesAnimation ==
    /\ [][hasVisitedMain # NULL => hasVisitedMain' = hasVisitedMain]_vars
    /\ [][(mode = "loading" /\ mode' = "animated") =>
              (hasVisitedMain = NULL /\ hasVisitedMain' = "true")]_vars
    /\ [][(mode = "loading" /\ mode' # "loading" /\ hasVisitedMain # NULL) =>
              (mode' = "immediate" /\ timers' = {})]_vars

\* The second load of a session is animated: the first came from the site itself
\* and left the flag unset.
C11_Witness ==
    /\ loads = 2
    /\ mode = "animated"
    /\ hasVisitedMain = "true"
    /\ "cat-command" \in DOMAIN regions
    /\ timers # {}

Pending(callback, r) == \E t \in timers : t.callback = callback /\ t.target = r

\* The stages of the first-visit chain, each by the lasting trace it leaves.
TypingCmd1 == producers["cat-command"] # <<>>
TypedCmd1 ==
    /\ TypingCmd1
    /\ ~Pending("typingInterval", "cat-command")
    /\ regions["cat-command"].content = Cmd1Text
RevealWelcome == regions["welcome-section"].visible
TypingSpace == producers["typed-space"] # <<>>
TypedSpace == TypingSpace /\ ~Pending("typeHTMLTimeout", "typed-space")
TypingCmd2 == Len(producers["typed-space"]) >= 2
TypedCmd2 ==
    /\ TypingCmd2
    /\ ~Pending("typingInterval", "typed-space")
    /\ regions["typed-space"].content = LsText
RevealPages == regions["pages-list"].visible
RevealFinalLine == regions["final-command-line"].visibility = "visible"
TypingFinalCursor == producers["final-cursor"] # <<>>

FirstVisitAllPresent == mode = "animated" /\ AllPresent

\* C12: on the first-visit path with all regions present the stages take effect
\* in the order TypingCmd1, RevealWelcome, TypingSpace, TypingCmd2, RevealPages,
\* RevealFinalLine, TypingFinalCursor, each after the one before it has had its
\* effect, and the step that enters a stage is never taken once it is entered.
C12_StagesInOrderOnce ==
    /\ [](FirstVisitAllPresent =>
            /\ TypingCmd1
            /\ RevealWelcome => TypedCmd1
            /\ TypingSpace =>
                  (RevealWelcome /\ regions["new-command-line"].visibility = "visible")
            /\ TypingCmd2 => (TypedSpace /\ producers["typed-space"][1].fn = "typeHTML")
            /\ RevealPages => TypedCmd2
            /\ RevealFinalLine => RevealPages
            /\ TypingFinalCursor => RevealFinalLine
            /\ Len(producers["cat-command"]) <= 1
            /\ Len(producers["typed-space"]) <= 2
            /\ Len(producers["final-cursor"]) <= 1)
    /\ [][(FirstVisitAllPresent /\ mode' = "animated") =>
            /\ (lastOp'.op = "showElement" /\ lastOp'.target = "welcome-section")
                  => ~RevealWelcome
            /\ lastOp'.op = "showNewCommandLine" => ~TypingSpace
            /\ lastOp'.op = "typeLsCommand" => ~TypingCmd2
            /\ (lastOp'.op = "showElement" /\ lastOp'.target = "pages-list")
                  => ~RevealPages
            /\ lastOp'.op = "showFinalCommandLine"
                  => (~RevealFinalLine /\ ~TypingFinalCursor)]_vars

C12_Witness ==
    /\ ChainComplete
    /\ TypedCmd1 /\ RevealWelcome /\ TypedSpace /\ TypedCmd2 /\ RevealPages
    /\ RevealFinalLine /\ TypingFinalCursor
    /\ regions["final-cursor"].content = <<NBSP>>
    /\ now = 5800

\* The chain has started: this load is a first visit and typeText found its target.
ChainStarted == mode = "animated" /\ "cat-command" \in DOMAIN regions

\* The terminal state of the chain: every stage has had its effect, the final
\* cursor holds its marker content and keeps the typing marker it was declared with.
Terminal ==
    /\ FirstVisitAllPresent
    /\ TypedCmd1 /\ RevealWelcome /\ TypedSpace /\ TypedCmd2 /\ RevealPages
    /\ RevealFinalLine /\ TypingFinalCursor
    /\ regions["new-command-line"].visibility = "visible"
    /\ regions["final-cursor"].content = <<NBSP>>
    /\ regions["final-cursor"].typingEffect = pageSource["final-cursor"].typingEffect

Unloaded == mode = "loading"

\* C13 as stated: once the chain has started, then unless the page is unloaded it
\* eventually reaches the terminal state, with no timer pending.
C13_StartedChainTerminates ==
    ChainStarted ~> ((Terminal /\ timers = {}) \/ Unloaded)

\* C13 as amended: on a page where all seven regions exist, once the chain has
\* started, then unless the page is unloaded it eventually reaches the terminal
\* state, with no timer pending.
C13_StartedChainTerminatesAllPresent ==
    (ChainStarted /\ AllPresent) ~> ((Terminal /\ timers = {}) \/ Unloaded)

C13_Witness ==
    /\ Terminal
    /\ timers = {}
    /\ regions["final-cursor"].typingEffect
    /\ lastOp = Op("typeHTMLTimeout", "final-cursor", "done")

TypingCallbacks == {"typingInterval", "typeHTMLTimeout"}

\* The typeText / typeHTML calls made so far that supplied a notification, and
\* those of them still typing.
NotifyingCalls ==
    UNION {{<<r, i>> : i \in {j \in DOMAIN producers[r] :
                                 /\ producers[r][j].fn \in {"typeText", "typeHTML"}
                                 /\ producers[r][j].config.onComplete # NULL}}
           : r \in DOMAIN producers}

NotifyingInFlight ==
    {t \in timers : t.callback \in TypingCallbacks /\ t.config.onComplete # NULL}

\* The step is the callback that finishes typing.
FinishesTyping ==
    /\ timers # {}
    /\ Due.callback \in TypingCallbacks
    /\ Due.callback = "typingInterval" => Due.index = Len(Due.text)
    /\ lastOp' = Op(Due.callback, Due.target, "done")

\* C14: a call of typeText or typeHTML on an existing region with a notification
\* supplied invokes it exactly once, in the timer callback that finishes typing;
\* the reveal timeout, if any, is then already scheduled and has not yet fired,
\* also when showDelay is 0.
C14_NotifiedOnceAtCompletion ==
    /\ [](Len(notified) = Cardinality(NotifyingCalls) - Cardinality(NotifyingInFlight))
    /\ [][notified' # notified => FinishesTyping]_vars
    /\ [][FinishesTyping =>
            LET c == Due.config
                reveal == {u \in timers' : /\ u.callback = "showElement"
                                           /\ u.target = c.showElementId
                                           /\ u.due = now' + c.showDelay}
            IN  /\ c.onComplete = NULL => notified' = notified
                /\ c.onComplete # NULL =>
                     /\ Len(notified') = Len(notified) + 1
                     /\ SubSeq(notified', 1, Len(notified)) = notified
                     /\ ("showElement" \in notified'[Len(notified')])
                            <=> (c.showElementId # NULL)
                     /\ c.showElementId # NULL =>
                          /\ reveal # {}
                          /\ c.showElementId \in DOMAIN regions \ {Due.target} =>
                               regions'[c.showElementId] = regions[c.showElementId]]_vars

C14_Witness ==
    /\ lastOp = Op("typingInterval", "typed-space", "done")
    /\ calls = 1
    /\ notified = <<{"showElement"}>>
    /\ \E u \in timers : u.callback = "showElement" /\ u.due = now
                         /\ u.config.showDelay = 0
    /\ ~regions["welcome-section"].visible

\* The producer and reveal timers in flight on region r.
InFlight(r) ==
    {t \in timers : t.callback \in TypingCallbacks \cup {"showElement"} /\ t.target = r}

\* C15: in every state of the first-visit chain each region has at most one
\* in-flight producer or reveal timer targeting it, and a producer is started on a
\* region only when none is in flight on it.
C15_OneTimerPerRegion ==
    /\ [](mode = "animated" => \A r \in RegionIds : Cardinality(InFlight(r)) <= 1)
    /\ [][(mode = "animated" /\ mode' = "animated") =>
            \A r \in DOMAIN producers :
                producers'[r] # producers[r] => InFlight(r) = {}]_vars

C15_Witness ==
    /\ mode = "animated"
    /\ Len(producers["typed-space"]) = 2
    /\ InFlight("typed-space") = {}
    /\ Cardinality(InFlight("pages-list")) = 1
    /\ Cardinality(timers) = 2

\* What the last producer called on r writes when it has finished.
FullContent(r) ==
    IF LastProducer(r).fn = "typeHTML" THEN ParseHTML(LastProducer(r).text)
    ELSE LastProducer(r).text

\* The step is the reveal timeout of a region that does not exist.
RevealFindsNothing ==
    /\ timers # {}
    /\ Due.callback = "showElement"
    /\ Due.target \notin DOMAIN regions
    /\ lastOp' = Op("showElement", Due.target, "not found")

\* C16: when the target exists and showElementId names no region, typing completes
\* with the full content, the reveal timeout reports exactly one error when it
\* fires and reveals nothing, and the notification is still invoked exactly once.
C16_MissingRevealOnlyReports ==
    /\ [][(FinishesTyping /\ Due.config.showElementId \notin DOMAIN regions \cup {NULL}) =>
            /\ regions'[Due.target].content = FullContent(Due.target)
            /\ errors' = errors /\ thrown' = thrown
            /\ \E u \in timers' : u.callback = "showElement"
                                  /\ u.target = Due.config.showElementId
            /\ Due.config.onComplete # NULL => Len(notified') = Len(notified) + 1]_vars
    /\ [][RevealFindsNothing =>
            /\ errors' = errors + 1
            /\ thrown' = thrown
            /\ regions' = regions
            /\ notified' = notified
            /\ timers' = timers \ {Due}
            /\ \A r \in DOMAIN regions :
                 (producers[r] # <<>> /\ LastProducer(r).config = Due.config) =>
                     regions[r].content = FullContent(r)]_vars
    /\ [](( /\ calls = 1
            /\ lastOp = Op("showElement", MissingId, "not found") ) =>
            /\ errors = 1
            /\ Len(notified) = 1
            /\ timers = {}
            /\ \A r \in DOMAIN regions :
                 [regions[r] EXCEPT !.content = <<>>] = pageSource[r])

C16_Witness ==
    /\ calls = 1
    /\ lastOp = Op("showElement", MissingId, "not found")
    /\ LastProducer("typed-space").fn = "typeText"
    /\ regions["typed-space"].content = <<"l", "s">>
    /\ errors = 1
    /\ now = 600

\* C17: when the origin of the referrer is not the current origin (also when the
\* referrer merely has the current origin's string as a prefix) and the session
\* flag is unset, isFirstVisit() sets the flag and returns true.
C17_OtherOriginFirstVisit ==
    [][(/\ lastOp'.op = "isFirstVisit"
        /\ calls' = calls + 1
        /\ OriginOf(referrer) # currentDomain
        /\ hasVisitedMain = NULL) =>
            /\ lastOp'.ret = "true"
            /\ hasVisitedMain' = "true"]_vars

\* The step is a load's call of isFirstVisit, returning ret.
LoadReturns(ret) ==
    mode = "loading" /\ lastOp'.op = "initializePage" /\ lastOp'.ret = ret

\* C18: isFirstVisit writes the session flag only in a call that returns true; a
\* call that returns false leaves the storage unchanged; and no step of a load
\* whose referrer is same-origin sets the flag, so that a session whose loads all
\* have a same-origin referrer never has it set.
C18_FlagWrittenOnlyOnFirstVisit ==
    /\ [][hasVisitedMain' # hasVisitedMain =>
            (LoadReturns("true") /\ hasVisitedMain = NULL /\ hasVisitedMain' = "true")]_vars
    /\ [][LoadReturns("false") => hasVisitedMain' = hasVisitedMain]_vars
    /\ [][OriginOf(referrer) = currentDomain => hasVisitedMain' = hasVisitedMain]_vars

C18_Witness ==
    /\ loads = 2
    /\ lastOp = Op("initializePage", NULL, "false")
    /\ OriginOf(referrer) = currentDomain
    /\ hasVisitedMain = NULL

\* The step is a tick of a typeText interval.
Ticks ==
    /\ timers # {}
    /\ Due.callback = "typingInterval"
    /\ lastOp'.op = "typingInterval"

\* C19: a typeText interval on a text of length n fires exactly n + 1 times: each
\* of the first n ticks appends one character, the (n + 1)-th cancels the interval
\* and completes, and the interval never fires again; for n = 0 the single tick
\* completes with empty text.
C19_TicksOncePerCharacterPlusOne ==
    /\ [][Ticks =>
            LET t == Due
            IN  IF t.index < Len(t.text)
                THEN /\ lastOp'.ret = "char"
                     /\ regions'[t.target].content =
                            regions[t.target].content \o <<t.text[t.index + 1]>>
                     /\ \E u \in timers' : /\ u.id = t.id
                                           /\ u.index = t.index + 1
                                           /\ u.due = t.due + t.config.speed
                ELSE /\ lastOp'.ret = "done"
                     /\ regions'[t.target].content = t.text
                     /\ \A u \in timers' : u.id # t.id]_vars
    /\ [][nextId' >= nextId]_vars
    /\ [](\A t \in timers :
            /\ t.id < nextId
            /\ t.callback = "typingInterval" =>
                 /\ t.index <= Len(t.text)
                 /\ regions[t.target].content = SubSeq(t.text, 1, t.index)
                 /\ t.due = now + t.config.speed
                 /\ Len(producers[t.target]) = 1 => now = t.index * t.config.speed)
    /\ [](( /\ lastOp = Op("typingInterval", "typed-space", "done")
            /\ Len(producers["typed-space"]) = 1 ) =>
            /\ now = (Len(LastProducer("typed-space").text) + 1)
                         * LastProducer("typed-space").config.speed
            /\ \A t \in timers : t.callback # "typingInterval")

C19_Witness ==
    /\ lastOp = Op("typingInterval", "typed-space", "done")
    /\ Len(producers["typed-space"]) = 1
    /\ LastProducer("typed-space").text = <<>>
    /\ regions["typed-space"].content = <<>>
    /\ now = DefaultSpeed

====
